---- MODULE Spec2Model ----
(***************************************************************************)
(* A model of the policy-gradient training engine of NLP_project:          *)
(*   src/main.py                          (entry point, validation)        *)
(*   src/policy_search/policy_gradient.py (PolicyGradient)                 *)
(*                                                                         *)
(* Three specifications share the module:                                  *)
(*   SpecBatch   merge_episodes_to_batch and the pure functions under it   *)
(*               (get_returns, calculate_advantage, normalize_advantage),  *)
(*               applied to every bounded list of episodes;                *)
(*   SpecRollout sample_episode against a nondeterministic environment;    *)
(*   Spec        main, run, wandb_context and the train loop, with an      *)
(*               exception possible at every point of an iteration.        *)
(*                                                                         *)
(* Numbers.  The program computes in float64.  The model computes in fixed *)
(* point: a real x is the integer x * Unit.  The discount is the rational  *)
(* gamma / GammaDen, and Unit = GammaDen^(MaxLen-1) makes every discounted *)
(* return of an episode of at most MaxLen steps exact.  Divisions and the  *)
(* square root of normalize_advantage round to the fixed-point grid.       *)
(*                                                                         *)
(* Spec follows what train does in which order and keeps of the batch only *)
(* what that order decides: which baseline parameters the advantages were  *)
(* computed from.  The numbers of a batch are SpecBatch's.                 *)
(***************************************************************************)
EXTENDS Integers, Sequences, FiniteSets, TLC

\* ------------------------------------------------------------------ bounds
MaxLen == 3
MaxEpisodes == 2
MaxBatches == 2
GammaDen == 2

Rewards == {-1, 1}
Observations == {0, 1}
NumActions == 2
Actions == 0 .. (NumActions - 1)

RECURSIVE Pow(_, _)
Pow(b, e) == IF e = 0 THEN 1 ELSE b * Pow(b, e - 1)

Unit == Pow(GammaDen, MaxLen - 1)

VARIABLES
    config,        \* the hyperparameters (read-only after construction)
    \* --- SpecBatch
    bpc,           \* "idle" | "sample" | "episodes" | "merged"
    episodes,      \* the list of Episodes handed to merge_episodes_to_batch
    baselineW,     \* the baseline network's parameter
    batch,         \* what merge_episodes_to_batch returned
    \* --- SpecRollout
    rpc,           \* "idle" | "call" | "loop" | "returned"
    observation,   \* sample_episode's local `observation`
    done,          \* sample_episode's local `done`
    episode,       \* sample_episode's local `episode`
    envLog,        \* what the environment and the policy were asked and answered
    resetLog,      \* the observations env.reset() returned, one per call
    \* --- Spec
    pc,            \* where main / run / train stands
    validated,     \* "pending" | "ok" | "rejected": validate_namespace's outcome
    envConstructed,  \* Environment(...) was called
    trainerCreated,  \* PolicyGradient(env, config) or PPO(env, config) was called
    envInteracted,   \* env.reset or env.step was called
    t,             \* train's loop variable
    itersStarted,  \* loop bodies entered
    itersDone,     \* loop bodies run to their end
    phases,        \* what the current loop body has done so far, in order
    policySteps,   \* optimizer.step() calls on the policy
    baselineSteps, \* update_baseline calls, one gradient step each
    trainAdvantages,  \* train's local: which baseline parameters it was computed from
    iterStartBase, \* baselineSteps when the current loop body was entered
    usedAdvantages,  \* the advantages the last update_policy was given
    reports,       \* "[ITERATION t]" lines logged
    metricsLogged, \* wandb.log calls
    raised,        \* the exception raised inside train, and where
    errorLogged,   \* "Training finished unexpectedly" lines logged
    completedLogged, \* "Training completed..." lines logged
    wandb          \* "none" | "active" | "finished": the tracking session

batchVars == <<bpc, episodes, baselineW, batch>>
rollVars == <<rpc, observation, done, episode, envLog, resetLog>>
mainVars == <<pc, validated, envConstructed, trainerCreated, envInteracted,
              t, itersStarted, itersDone, phases,
              policySteps, baselineSteps, trainAdvantages, iterStartBase,
              usedAdvantages, reports, metricsLogged, raised, errorLogged, completedLogged,
              wandb>>
vars == <<config, batchVars, rollVars, mainVars>>

\* ------------------------------------------------------------ sequences
RECURSIVE Sum(_)
Sum(s) == IF s = <<>> THEN 0 ELSE Head(s) + Sum(Tail(s))

\* np.concatenate over a list of arrays
RECURSIVE np_concatenate(_)
np_concatenate(arrays) ==
    IF arrays = <<>> THEN <<>>
    ELSE Head(arrays) \o np_concatenate(Tail(arrays))

\* -------------------------------------------------------------- Episode
\* An Episode is the record of one rollout: three arrays of equal length.
EmptyEpisode == [observations |-> <<>>, actions |-> <<>>, rewards |-> <<>>]

episode_add(ep, o, a, r) ==
    [observations |-> Append(ep.observations, o),
     actions      |-> Append(ep.actions, a),
     rewards      |-> Append(ep.rewards, r)]

total_reward(ep) == Sum(ep.rewards)

\* ---------------------------------------------------------- get_returns
\* gamma * x for the discount g / GammaDen
Discount(g, x) == (g * x) \div GammaDen

\* The inner loop, lines 110-113: t runs over reversed(range(len(rewards)));
\* here t is the 1-based index, G_t the accumulator carried into the step.
RECURSIVE ReturnsLoop(_, _, _, _, _)
ReturnsLoop(rewards, g, i, G_t, returns) ==
    IF i = 0 THEN returns
    ELSE LET G == rewards[i] * Unit + Discount(g, G_t)
         IN  ReturnsLoop(rewards, g, i - 1, G, [returns EXCEPT ![i] = G])

\* mutant: the discount is applied to the reward instead of the carried return
RECURSIVE ReturnsLoopDiscountReward(_, _, _, _, _)
ReturnsLoopDiscountReward(rewards, g, i, G_t, returns) ==
    IF i = 0 THEN returns
    ELSE LET G == Discount(g, rewards[i] * Unit) + G_t
         IN  ReturnsLoopDiscountReward(rewards, g, i - 1, G,
                                       [returns EXCEPT ![i] = G])

EpisodeReturnsDiscountReward(rewards, g) ==
    ReturnsLoopDiscountReward(rewards, g, Len(rewards), 0,
                              [i \in 1 .. Len(rewards) |-> 0])

\* One iteration of the outer loop, lines 107-113: zeros_like, G_t = 0, the
\* backward pass.
EpisodeReturns(rewards, g) ==
    ReturnsLoop(rewards, g, Len(rewards), 0, [i \in 1 .. Len(rewards) |-> 0])

\* mutant: G_t is initialised once, before the loop over the episodes, so an
\* episode's pass starts from the return of the episode after it in the pass
RECURSIVE ReturnsCarried(_, _, _)
ReturnsCarried(eps, g, G_t) ==
    IF eps = <<>> THEN <<>>
    ELSE LET r == Head(eps).rewards
             one == ReturnsLoop(r, g, Len(r), G_t, [i \in 1 .. Len(r) |-> 0])
         IN  <<one>> \o ReturnsCarried(Tail(eps), g,
                                       IF Len(r) = 0 THEN G_t ELSE one[1])

get_returns_carried(eps, g) == np_concatenate(ReturnsCarried(eps, g, 0))

get_returns(eps, g) ==
    np_concatenate([e \in 1 .. Len(eps) |-> EpisodeReturns(eps[e].rewards, g)])

\* -------------------------------------------------- normalize_advantage
\* floor of the square root
RECURSIVE ISqrtFrom(_, _)
ISqrtFrom(x, r) == IF (r + 1) * (r + 1) > x THEN r ELSE ISqrtFrom(x, r + 1)

ISqrt(x) == ISqrtFrom(x, 0)

\* a / b for b > 0, rounded to the nearest fixed-point number (ties away
\* from zero), as a float division rounds to the nearest float
np_divide(a, b) ==
    IF a >= 0 THEN (2 * a + b) \div (2 * b)
    ELSE -((2 * (-a) + b) \div (2 * b))

np_mean(a) == np_divide(Sum(a), Len(a))

np_std(a) ==
    LET m == np_mean(a)
    IN  ISqrt(np_divide(Sum([i \in 1 .. Len(a) |-> (a[i] - m) * (a[i] - m)]),
                        Len(a)))

\* The 1e-8 of line 130; in fixed point, the smallest positive number.
Epsilon == 1

normalize_advantage(advantages) ==
    LET mean_advantage == np_mean(advantages)
        std_advantage == np_std(advantages)
    IN  [i \in 1 .. Len(advantages) |->
            np_divide((advantages[i] - mean_advantage) * Unit,
                      std_advantage + Epsilon)]

\* --------------------------------------------------- calculate_advantage
\* BaselineNetwork: a regressor from an observation to an expected return,
\* here with one weight w on one feature of the observation.
baseline_predict(w, o) == w * (o % 2) * Unit

baseline_calculate_advantage(w, returns, observations) ==
    [i \in 1 .. Len(returns) |-> returns[i] - baseline_predict(w, observations[i])]

\* mutant: the normalize_advantage switch is ignored
calculate_advantage_always_normalize(cfg, w, returns, observations) ==
    normalize_advantage(
        IF cfg.baseline
        THEN baseline_calculate_advantage(w, returns, observations)
        ELSE returns)

calculate_advantage(cfg, w, returns, observations) ==
    LET advantages ==
            IF cfg.baseline
            THEN baseline_calculate_advantage(w, returns, observations)
            ELSE returns
    IN  IF cfg.normalize_advantage THEN normalize_advantage(advantages)
        ELSE advantages

\* ----------------------------------------------- merge_episodes_to_batch
merge_episodes_to_batch(cfg, w, eps) ==
    LET observations == np_concatenate([e \in 1 .. Len(eps) |-> eps[e].observations])
        actions == np_concatenate([e \in 1 .. Len(eps) |-> eps[e].actions])
        returns == get_returns(eps, cfg.gamma)
        advantages == calculate_advantage(cfg, w, returns, observations)
        batch_rewards == [e \in 1 .. Len(eps) |-> total_reward(eps[e])]
    IN  [observations |-> observations, actions |-> actions,
         returns |-> returns, advantages |-> advantages,
         batch_rewards |-> batch_rewards]

\* ------------------------------------------------------------ the config
DefaultConfig ==
    [algorithm |-> "pg", baseline |-> FALSE, normalize_advantage |-> TRUE,
     gamma |-> GammaDen, num_batches |-> 1, num_episodes_per_batch |-> 1,
     run_name |-> FALSE]

\* ============================================================ SpecBatch
\* Observations are opaque vectors: each carries the identity of its step.
ObsTag(e, i) == e * (MaxLen + 1) + i

MkEpisode(e, rewards) ==
    [observations |-> [i \in 1 .. Len(rewards) |-> ObsTag(e, i)],
     actions      |-> [i \in 1 .. Len(rewards) |-> (e + i) % NumActions],
     rewards      |-> rewards]

RewardSeqs == UNION {[1 .. l -> Rewards] : l \in 1 .. MaxLen}

\* Every list of n episodes of 1 .. MaxLen steps each.
EpisodeLists(n) ==
    {[e \in 1 .. n |-> MkEpisode(e, rs[e])] : rs \in [1 .. n -> RewardSeqs]}

IdleBatch ==
    /\ bpc = "idle"
    /\ episodes = <<>>
    /\ baselineW = 0
    /\ batch = [observations |-> <<>>, actions |-> <<>>, returns |-> <<>>,
                advantages |-> <<>>, batch_rewards |-> <<>>]

IdleRollout ==
    /\ rpc = "idle"
    /\ observation = 0
    /\ done = FALSE
    /\ episode = EmptyEpisode
    /\ envLog = <<>>
    /\ resetLog = <<>>

NoAdvantages == [iter |-> -1, baseline_version |-> -1, normalized |-> FALSE]

NoRaise ==
    [kind |-> "none", pc |-> "none", t |-> 0, phases |-> <<>>, itersStarted |-> 0,
     policySteps |-> 0, baselineSteps |-> 0, reports |-> 0]

IdleMain ==
    /\ pc = "idle"
    /\ validated = "pending"
    /\ envConstructed = FALSE
    /\ trainerCreated = FALSE
    /\ envInteracted = FALSE
    /\ t = 0
    /\ itersStarted = 0
    /\ itersDone = 0
    /\ phases = <<>>
    /\ policySteps = 0
    /\ baselineSteps = 0
    /\ trainAdvantages = NoAdvantages
    /\ iterStartBase = 0
    /\ usedAdvantages = NoAdvantages
    /\ reports = 0
    /\ metricsLogged = 0
    /\ raised = NoRaise
    /\ errorLogged = 0
    /\ completedLogged = 0
    /\ wandb = "none"

InitBatch ==
    /\ \E g \in 0 .. GammaDen, b \in BOOLEAN, n \in BOOLEAN, k \in 1 .. MaxEpisodes :
          config = [DefaultConfig EXCEPT !.gamma = g, !.baseline = b,
                                         !.normalize_advantage = n,
                                         !.num_episodes_per_batch = k]
    /\ bpc = "sample"
    /\ episodes = <<>>
    /\ baselineW = (IF config.baseline THEN 1 ELSE 0)
    /\ batch = [observations |-> <<>>, actions |-> <<>>, returns |-> <<>>,
                advantages |-> <<>>, batch_rewards |-> <<>>]
    /\ IdleRollout
    /\ IdleMain

\* sample_episodes: num_episodes_per_batch rollouts, whatever the environment
\* and the policy made of them.
SampleEpisodes ==
    /\ bpc = "sample"
    /\ episodes' \in EpisodeLists(config.num_episodes_per_batch)
    /\ bpc' = "episodes"
    /\ UNCHANGED <<config, baselineW, batch, rollVars, mainVars>>

MergeEpisodesToBatch ==
    /\ bpc = "episodes"
    /\ batch' = merge_episodes_to_batch(config, baselineW, episodes)
    /\ bpc' = "merged"
    /\ UNCHANGED <<config, episodes, baselineW, rollVars, mainVars>>

NextBatch == SampleEpisodes \/ MergeEpisodesToBatch

SpecBatch == InitBatch /\ [][NextBatch]_vars

\* Where episode e starts in the concatenated arrays (0-based offset).
Offset(eps, e) == Sum([k \in 1 .. (e - 1) |-> Len(eps[k].rewards)])

TotalSteps(eps) == Sum([k \in 1 .. Len(eps) |-> Len(eps[k].rewards)])

\* C1: for every episode, the returns get_returns yields satisfy
\* G[T-1] = r[T-1] and G[t] = r[t] + gamma * G[t+1]; a single-step episode
\* has return r, a two-step episode has returns [r0 + gamma*r1, r1].
C1_ReturnsRecurrence ==
    bpc = "merged" =>
        \A e \in 1 .. Len(episodes) :
            LET r == episodes[e].rewards
                T == Len(r)
                off == Offset(episodes, e)
                G == [i \in 1 .. T |-> batch.returns[off + i]]
            IN  /\ G[T] = r[T] * Unit
                /\ \A i \in 1 .. (T - 1) :
                       G[i] = r[i] * Unit + Discount(config.gamma, G[i + 1])
                /\ T = 1 => G = <<r[1] * Unit>>
                /\ T = 2 => G = <<r[1] * Unit
                                     + (config.gamma * r[2] * Unit) \div GammaDen,
                                  r[2] * Unit>>

C1_Witness ==
    /\ bpc = "merged"
    /\ config.gamma \in 1 .. (GammaDen - 1)
    /\ \E e \in 1 .. Len(episodes) :
          /\ Len(episodes[e].rewards) >= 3
          /\ batch.returns[Offset(episodes, e) + 1] # episodes[e].rewards[1] * Unit
    /\ \E e \in 1 .. Len(episodes) : Len(episodes[e].rewards) = 1

\* The return of step i of one episode as the definition gives it: the sum of
\* gamma^k * r[i+k] over the rest of that episode.
SuffixReturn(rewards, g, i) ==
    Sum([k \in 1 .. (Len(rewards) - i + 1) |->
            (Pow(g, k - 1) * rewards[i + k - 1] * Unit) \div Pow(GammaDen, k - 1)])

\* C2: the batch is the order-preserving concatenation of the episodes: all
\* four arrays have length T = sum of the episode lengths, position
\* offset(e)+t belongs to step t of episode e, and the return there is a
\* function of episode e's rewards at steps >= t alone.
C2_BatchIsConcatenation ==
    bpc = "merged" =>
        /\ Len(batch.observations) = TotalSteps(episodes)
        /\ Len(batch.actions) = TotalSteps(episodes)
        /\ Len(batch.returns) = TotalSteps(episodes)
        /\ Len(batch.advantages) = TotalSteps(episodes)
        /\ \A e \in 1 .. Len(episodes) :
              \A i \in 1 .. Len(episodes[e].rewards) :
                  LET p == Offset(episodes, e) + i
                  IN  /\ batch.observations[p] = episodes[e].observations[i]
                      /\ batch.actions[p] = episodes[e].actions[i]
                      /\ batch.returns[p] =
                            SuffixReturn(episodes[e].rewards, config.gamma, i)

C2_Witness ==
    /\ bpc = "merged"
    /\ Len(episodes) >= 2
    /\ Len(episodes[1].rewards) # Len(episodes[2].rewards)
    /\ Len(episodes[1].rewards) >= 2
    /\ config.gamma > 0
    /\ episodes[1].rewards # episodes[2].rewards
    /\ Len(batch.returns) = Len(episodes[1].rewards) + Len(episodes[2].rewards)

\* C4 as stated: with baseline disabled the advantage vector equals the
\* return vector, whatever the rest of the configuration.
C4_AdvantageIsReturns ==
    (bpc = "merged" /\ ~config.baseline) => batch.advantages = batch.returns

\* C4 as amended: with baseline disabled the advantage vector equals the
\* return vector when normalize_advantage is off, and is the normalised
\* return vector when it is on.
C4_AdvantageIsReturnsUnlessNormalized ==
    (bpc = "merged" /\ ~config.baseline) =>
        IF config.normalize_advantage
        THEN batch.advantages = normalize_advantage(batch.returns)
        ELSE batch.advantages = batch.returns

C4_Witness ==
    /\ bpc = "merged"
    /\ ~config.baseline
    /\ ~config.normalize_advantage
    /\ Len(batch.returns) >= 2
    /\ batch.advantages = batch.returns
    /\ \E i \in 1 .. Len(batch.returns) : batch.returns[i] # 0

\* ========================================================== SpecRollout
\* sample_episode, lines 69-80.  The environment and the policy are outside
\* the program: reset and step answer anything of the right type, act samples
\* any action.  envLog keeps, per step call, the observation act was given,
\* the action passed to step and the triple step returned.
InitRollout ==
    /\ config = DefaultConfig
    /\ rpc = "call"
    /\ observation = 0
    /\ done = FALSE
    /\ episode = EmptyEpisode
    /\ envLog = <<>>
    /\ resetLog = <<>>
    /\ IdleBatch
    /\ IdleMain

\* lines 70-72
sample_episode_reset ==
    /\ rpc = "call"
    /\ \E o \in Observations :
          /\ observation' = o
          /\ resetLog' = Append(resetLog, o)
    /\ episode' = EmptyEpisode
    /\ done' = FALSE
    /\ rpc' = "loop"
    /\ UNCHANGED <<config, envLog, batchVars, mainVars>>

\* mutant: the observation is advanced before the step is recorded, so the
\* episode keeps the observation the step led to
sample_episode_step_records_next ==
    /\ rpc = "loop"
    /\ ~done
    /\ Len(envLog) < MaxLen
    /\ \E action \in Actions, next_observation \in Observations,
          reward \in Rewards, d \in BOOLEAN :
          /\ envLog' = Append(envLog,
                  [acted_on |-> observation, action |-> action,
                   next_observation |-> next_observation,
                   reward |-> reward, done |-> d])
          /\ episode' = episode_add(episode, next_observation, action, reward)
          /\ observation' = next_observation
          /\ done' = d
    /\ UNCHANGED <<config, rpc, resetLog, batchVars, mainVars>>

\* One pass of the loop body, lines 74-78: act on the current observation,
\* step the environment, add the triple, advance the observation.
sample_episode_step ==
    /\ rpc = "loop"
    /\ ~done
    /\ Len(envLog) < MaxLen
    /\ \E action \in Actions, next_observation \in Observations,
          reward \in Rewards, d \in BOOLEAN :
          /\ envLog' = Append(envLog,
                  [acted_on |-> observation, action |-> action,
                   next_observation |-> next_observation,
                   reward |-> reward, done |-> d])
          /\ episode' = episode_add(episode, observation, action, reward)
          /\ observation' = next_observation
          /\ done' = d
    /\ UNCHANGED <<config, rpc, resetLog, batchVars, mainVars>>

\* line 74 turning false, line 80
sample_episode_return ==
    /\ rpc = "loop"
    /\ done
    /\ rpc' = "returned"
    /\ UNCHANGED <<config, observation, done, episode, envLog, resetLog,
                   batchVars, mainVars>>

NextRollout ==
    \/ sample_episode_reset
    \/ sample_episode_step
    \/ sample_episode_return

SpecRollout == InitRollout /\ [][NextRollout]_vars

\* C9: sample_episode resets the environment once; each step call records
\* one triple (the observation the action was sampled from, the action, the
\* step's reward); the next step's observation is the one the step returned;
\* the loop stops right after the first step that signals done, and only
\* then; the episode has as many triples as step calls, at least one.
C9_RolloutRecordsEachStep ==
    LET n == Len(envLog) IN
    /\ Len(resetLog) = (IF rpc = "call" THEN 0 ELSE 1)
    /\ Len(episode.observations) = n
    /\ Len(episode.actions) = n
    /\ Len(episode.rewards) = n
    /\ \A i \in 1 .. n :
          /\ episode.observations[i] = envLog[i].acted_on
          /\ episode.actions[i] = envLog[i].action
          /\ episode.rewards[i] = envLog[i].reward
          /\ episode.observations[i] =
                (IF i = 1 THEN resetLog[1] ELSE envLog[i - 1].next_observation)
          /\ i < n => ~envLog[i].done
    /\ rpc = "returned" => (n >= 1 /\ envLog[n].done)
    /\ (rpc = "loop" /\ n >= 1 /\ envLog[n].done) =>
          (ENABLED sample_episode_return /\ ~ENABLED sample_episode_step)
    /\ (rpc = "loop" /\ (n = 0 \/ ~envLog[n].done)) =>
          ~ENABLED sample_episode_return
    /\ (rpc = "loop" /\ n < MaxLen /\ (n = 0 \/ ~envLog[n].done)) =>
          ENABLED sample_episode_step

C9_Witness ==
    /\ rpc = "returned"
    /\ Len(envLog) >= 2
    /\ envLog[1].next_observation # envLog[1].acted_on
    /\ envLog[2].next_observation # envLog[2].acted_on
    /\ Len(episode.rewards) = Len(envLog)

\* ================================================================= Spec
\* main.py from parse_args on, then PolicyGradient.run.  parse_args has
\* produced a namespace: any algorithm of ALLOWED_ALGORITHMS, any flags.
Init ==
    /\ \E a \in {"pg", "ppo"}, b \in BOOLEAN, n \in BOOLEAN,
          nb \in 0 .. MaxBatches, rn \in BOOLEAN :
          config = [DefaultConfig EXCEPT !.algorithm = a, !.baseline = b,
                                         !.normalize_advantage = n,
                                         !.num_batches = nb, !.run_name = rn]
    /\ pc = "validate"
    /\ validated = "pending"
    /\ envConstructed = FALSE
    /\ trainerCreated = FALSE
    /\ envInteracted = FALSE
    /\ t = 0
    /\ itersStarted = 0
    /\ itersDone = 0
    /\ phases = <<>>
    /\ policySteps = 0
    /\ baselineSteps = 0
    /\ trainAdvantages = NoAdvantages
    /\ iterStartBase = 0
    /\ usedAdvantages = NoAdvantages
    /\ reports = 0
    /\ metricsLogged = 0
    /\ raised = NoRaise
    /\ errorLogged = 0
    /\ completedLogged = 0
    /\ wandb = "none"
    /\ IdleBatch
    /\ IdleRollout

\* mutant: the assertion never fires
namespace_is_valid_unchecked(namespace) == TRUE

\* The condition validate_namespace asserts, lines 67-68.
namespace_is_valid(namespace) ==
    namespace.algorithm = "ppo" => namespace.baseline

\* main.py lines 73: a failed assert ends the process there.
validate_namespace ==
    /\ pc = "validate"
    /\ IF namespace_is_valid(config)
       THEN validated' = "ok" /\ pc' = "environment"
       ELSE validated' = "rejected" /\ pc' = "aborted"
    /\ UNCHANGED <<config, envConstructed, trainerCreated, envInteracted, t,
                   itersStarted, itersDone, phases, policySteps, baselineSteps,
                   trainAdvantages, iterStartBase, usedAdvantages, reports,
                   metricsLogged, raised, errorLogged, completedLogged, wandb,
                   batchVars, rollVars>>

\* main.py lines 75-91: seeds, config, logger, dataset, llm, encoder, then
\* Environment(...).
construct_environment ==
    /\ pc = "environment"
    /\ envConstructed' = TRUE
    /\ pc' = "trainer"
    /\ UNCHANGED <<config, validated, trainerCreated, envInteracted, t,
                   itersStarted, itersDone, phases, policySteps, baselineSteps,
                   trainAdvantages, iterStartBase, usedAdvantages, reports,
                   metricsLogged, raised, errorLogged, completedLogged, wandb,
                   batchVars, rollVars>>

\* main.py lines 93-94: the trainer of the requested algorithm.  PPO's
\* training is not followed further.
create_trainer ==
    /\ pc = "trainer"
    /\ trainerCreated' = TRUE
    /\ pc' = (IF config.algorithm = "pg" THEN "run" ELSE "ppo_run")
    /\ UNCHANGED <<config, validated, envConstructed, envInteracted, t,
                   itersStarted, itersDone, phases, policySteps, baselineSteps,
                   trainAdvantages, iterStartBase, usedAdvantages, reports,
                   metricsLogged, raised, errorLogged, completedLogged, wandb,
                   batchVars, rollVars>>

\* run, line 258, and wandb_context up to its yield, lines 247-250.
wandb_context_enter ==
    /\ pc = "run"
    /\ wandb' = (IF config.run_name THEN "active" ELSE wandb)
    /\ pc' = "train_loop"
    /\ UNCHANGED <<config, validated, envConstructed, trainerCreated,
                   envInteracted, t, itersStarted, itersDone, phases,
                   policySteps, baselineSteps, trainAdvantages, iterStartBase,
                   usedAdvantages, reports, metricsLogged, raised, errorLogged,
                   completedLogged, batchVars, rollVars>>

\* mutant: the loop runs once more than asked
loop_continues_off_by_one(i, cfg) == i <= cfg.num_batches

\* for t in range(self.config.num_batches), line 211
loop_continues(i, cfg) == i < cfg.num_batches

\* Line 211: enter the next loop body, or leave train with the try block
\* completed.
train_loop ==
    /\ pc = "train_loop"
    /\ IF loop_continues(t, config)
       THEN /\ pc' = "sample_episodes"
            /\ itersStarted' = itersStarted + 1
            /\ phases' = <<>>
            /\ iterStartBase' = baselineSteps
       ELSE /\ pc' = "finally"
            /\ UNCHANGED <<itersStarted, phases, iterStartBase>>
    /\ UNCHANGED <<config, validated, envConstructed, trainerCreated,
                   envInteracted, t, itersDone, policySteps, baselineSteps,
                   trainAdvantages, usedAdvantages, reports, metricsLogged, raised,
                   errorLogged, completedLogged, wandb, batchVars, rollVars>>

\* line 212
sample_episodes ==
    /\ pc = "sample_episodes"
    /\ envInteracted' = TRUE
    /\ phases' = Append(phases, "SampleBatch")
    /\ pc' = "get_returns"
    /\ UNCHANGED <<config, validated, envConstructed, trainerCreated, t,
                   itersStarted, itersDone, policySteps, baselineSteps,
                   trainAdvantages, iterStartBase, usedAdvantages, reports,
                   metricsLogged, raised, errorLogged, completedLogged, wandb,
                   batchVars, rollVars>>

\* merge_episodes_to_batch up to the returns, lines 183-189
train_get_returns ==
    /\ pc = "get_returns"
    /\ phases' = Append(phases, "ComputeReturns")
    /\ pc' = "calculate_advantage"
    /\ UNCHANGED <<config, validated, envConstructed, trainerCreated,
                   envInteracted, t, itersStarted, itersDone, policySteps,
                   baselineSteps, trainAdvantages, iterStartBase, usedAdvantages,
                   reports, metricsLogged, raised, errorLogged, completedLogged,
                   wandb, batchVars, rollVars>>

\* The trainAdvantages calculate_advantage returns, as far as train's order of
\* events goes: the iteration they belong to, the baseline parameters they
\* were computed from (-1: no baseline), whether they were normalised.
AdvantagesFrom(cfg, iter, baseline_version) ==
    [iter |-> iter,
     baseline_version |-> (IF cfg.baseline THEN baseline_version ELSE -1),
     normalized |-> cfg.normalize_advantage]

\* What calculate_advantage does, in order, lines 142-151.
AdvantagePhases(cfg) ==
    <<"ComputeAdvantage">>
        \o (IF cfg.normalize_advantage THEN <<"NormalizeAdvantage">> ELSE <<>>)

\* merge_episodes_to_batch from the trainAdvantages on, lines 192-196
train_calculate_advantage ==
    /\ pc = "calculate_advantage"
    /\ trainAdvantages' = AdvantagesFrom(config, t, baselineSteps)
    /\ phases' = phases \o AdvantagePhases(config)
    /\ pc' = "update_baseline"
    /\ UNCHANGED <<config, validated, envConstructed, trainerCreated,
                   envInteracted, t, itersStarted, itersDone, policySteps,
                   baselineSteps, iterStartBase, usedAdvantages, reports,
                   metricsLogged, raised, errorLogged, completedLogged, wandb,
                   batchVars, rollVars>>

\* mutant: the trainAdvantages are computed again from the updated baseline
update_baseline_then_recompute ==
    /\ pc = "update_baseline"
    /\ IF config.baseline
       THEN /\ baselineSteps' = baselineSteps + 1
            /\ trainAdvantages' = AdvantagesFrom(config, t, baselineSteps + 1)
            /\ phases' = Append(phases, "UpdateBaseline")
       ELSE UNCHANGED <<baselineSteps, phases, trainAdvantages>>
    /\ pc' = "update_policy"
    /\ UNCHANGED <<config, validated, envConstructed, trainerCreated,
                   envInteracted, t, itersStarted, itersDone, policySteps,
                   iterStartBase, usedAdvantages, reports,
                   metricsLogged, raised, errorLogged, completedLogged, wandb,
                   batchVars, rollVars>>

\* lines 216-217
update_baseline ==
    /\ pc = "update_baseline"
    /\ IF config.baseline
       THEN /\ baselineSteps' = baselineSteps + 1
            /\ phases' = Append(phases, "UpdateBaseline")
       ELSE UNCHANGED <<baselineSteps, phases>>
    /\ pc' = "update_policy"
    /\ UNCHANGED <<config, validated, envConstructed, trainerCreated,
                   envInteracted, t, itersStarted, itersDone, policySteps,
                   trainAdvantages, iterStartBase, usedAdvantages, reports,
                   metricsLogged, raised, errorLogged, completedLogged, wandb,
                   batchVars, rollVars>>

\* line 219 and update_policy, lines 164-180: one optimizer.step()
update_policy ==
    /\ pc = "update_policy"
    /\ policySteps' = policySteps + 1
    /\ usedAdvantages' = trainAdvantages
    /\ phases' = Append(phases, "UpdatePolicy")
    /\ pc' = "report"
    /\ UNCHANGED <<config, validated, envConstructed, trainerCreated,
                   envInteracted, t, itersStarted, itersDone, baselineSteps,
                   trainAdvantages, iterStartBase, reports, metricsLogged, raised,
                   errorLogged, completedLogged, wandb, batchVars, rollVars>>

\* lines 221-227: the "[ITERATION t]" line
report_rewards ==
    /\ pc = "report"
    /\ reports' = reports + 1
    /\ phases' = Append(phases, "Report")
    /\ pc' = "wandb_log"
    /\ UNCHANGED <<config, validated, envConstructed, trainerCreated,
                   envInteracted, t, itersStarted, itersDone, policySteps,
                   baselineSteps, trainAdvantages, iterStartBase, usedAdvantages,
                   metricsLogged, raised, errorLogged, completedLogged, wandb,
                   batchVars, rollVars>>

\* lines 230-231, the end of the loop body
wandb_log ==
    /\ pc = "wandb_log"
    /\ metricsLogged' = (IF config.run_name THEN metricsLogged + 1
                         ELSE metricsLogged)
    /\ itersDone' = itersDone + 1
    /\ t' = t + 1
    /\ pc' = "train_loop"
    /\ UNCHANGED <<config, validated, envConstructed, trainerCreated,
                   envInteracted, itersStarted, phases, policySteps,
                   baselineSteps, trainAdvantages, iterStartBase, usedAdvantages,
                   reports, raised, errorLogged, completedLogged, wandb,
                   batchVars, rollVars>>

\* The points of a loop body; at each, the call about to be made may raise.
BodyPoints ==
    {"sample_episodes", "get_returns", "calculate_advantage", "update_baseline",
     "update_policy", "report", "wandb_log"}

\* What raise an exception can be: an Exception, which line 262 catches, or a
\* BaseException that is not one (KeyboardInterrupt, SystemExit), which it
\* does not.
ExceptionKinds == {"Exception", "BaseException"}

\* except Exception, line 262
handler_catches(kind) == kind = "Exception"

\* The call at the current point raises instead of returning: control leaves
\* train for run's except clause, or, uncaught, for its finally clause.
raise_in_train ==
    /\ pc \in BodyPoints
    /\ \E kind \in ExceptionKinds :
          /\ raised' = [kind |-> kind, pc |-> pc, t |-> t, phases |-> phases,
                        itersStarted |-> itersStarted,
                        policySteps |-> policySteps,
                        baselineSteps |-> baselineSteps, reports |-> reports]
          /\ pc' = (IF handler_catches(kind) THEN "except" ELSE "finally")
    /\ envInteracted' = (envInteracted \/ pc = "sample_episodes")
    /\ UNCHANGED <<config, validated, envConstructed, trainerCreated, t,
                   itersStarted, itersDone, phases, policySteps, baselineSteps,
                   trainAdvantages, iterStartBase, usedAdvantages, reports,
                   metricsLogged, errorLogged, completedLogged, wandb,
                   batchVars, rollVars>>

\* mutant: the failed iteration is tried again
except_clause_retries ==
    /\ pc = "except"
    /\ errorLogged' = errorLogged + 1
    /\ pc' = "train_loop"
    /\ UNCHANGED <<config, validated, envConstructed, trainerCreated,
                   envInteracted, t, itersStarted, itersDone, phases,
                   policySteps, baselineSteps, trainAdvantages, iterStartBase,
                   usedAdvantages, reports, metricsLogged, raised,
                   completedLogged, wandb, batchVars, rollVars>>

\* lines 262-263
except_clause ==
    /\ pc = "except"
    /\ errorLogged' = errorLogged + 1
    /\ pc' = "finally"
    /\ UNCHANGED <<config, validated, envConstructed, trainerCreated,
                   envInteracted, t, itersStarted, itersDone, phases,
                   policySteps, baselineSteps, trainAdvantages, iterStartBase,
                   usedAdvantages, reports, metricsLogged, raised,
                   completedLogged, wandb, batchVars, rollVars>>

\* An exception is leaving the try statement: one was raised and no except
\* clause handled it.
Propagating == raised.kind # "none" /\ ~handler_catches(raised.kind)

\* lines 264-265; then the with block is left, normally or by the exception
finally_clause ==
    /\ pc = "finally"
    /\ completedLogged' = completedLogged + 1
    /\ pc' = (IF Propagating THEN "wandb_throw" ELSE "wandb_exit")
    /\ UNCHANGED <<config, validated, envConstructed, trainerCreated,
                   envInteracted, t, itersStarted, itersDone, phases,
                   policySteps, baselineSteps, trainAdvantages, iterStartBase,
                   usedAdvantages, reports, metricsLogged, raised, errorLogged,
                   wandb, batchVars, rollVars>>

\* The with block ended normally: the generator resumes after its yield,
\* lines 251-252, and run returns.
wandb_context_exit ==
    /\ pc = "wandb_exit"
    /\ wandb' = (IF config.run_name THEN "finished" ELSE wandb)
    /\ pc' = "run_returned"
    /\ UNCHANGED <<config, validated, envConstructed, trainerCreated,
                   envInteracted, t, itersStarted, itersDone, phases,
                   policySteps, baselineSteps, trainAdvantages, iterStartBase,
                   usedAdvantages, reports, metricsLogged, raised, errorLogged,
                   completedLogged, batchVars, rollVars>>

\* The with block ended by an exception: it is thrown into the generator at
\* its yield, line 250, which no try statement encloses, so lines 251-252
\* are not run and the exception leaves run.
wandb_context_throw ==
    /\ pc = "wandb_throw"
    /\ pc' = "run_raised"
    /\ UNCHANGED <<config, validated, envConstructed, trainerCreated,
                   envInteracted, t, itersStarted, itersDone, phases,
                   policySteps, baselineSteps, trainAdvantages, iterStartBase,
                   usedAdvantages, reports, metricsLogged, raised, errorLogged,
                   completedLogged, wandb, batchVars, rollVars>>

Next ==
    \/ validate_namespace
    \/ construct_environment
    \/ create_trainer
    \/ wandb_context_enter
    \/ train_loop
    \/ sample_episodes
    \/ train_get_returns
    \/ train_calculate_advantage
    \/ update_baseline
    \/ update_policy
    \/ report_rewards
    \/ wandb_log
    \/ raise_in_train
    \/ except_clause
    \/ finally_clause
    \/ wandb_context_exit
    \/ wandb_context_throw

Spec == Init /\ [][Next]_vars

\* ------------------------------------------------------- claims on Spec
IsPrefix(a, b) == Len(a) <= Len(b) /\ \A i \in 1 .. Len(a) : a[i] = b[i]

Positions(seq, x) == {i \in 1 .. Len(seq) : seq[i] = x}

Returned == pc \in {"run_returned", "run_raised"}

\* C3: with baseline enabled, the advantages given to an iteration's policy
\* update were computed from the baseline parameters as they were when the
\* iteration began: they are computed before update_baseline and not again
\* after it.
C3_AdvantageFromPreUpdateBaseline ==
    config.baseline =>
        /\ Positions(phases, "UpdatePolicy") # {} =>
              /\ usedAdvantages.iter = itersStarted - 1
              /\ usedAdvantages.baseline_version = iterStartBase
        /\ (itersStarted > 0 /\ trainAdvantages.iter = itersStarted - 1) =>
              trainAdvantages.baseline_version = iterStartBase
        /\ Cardinality(Positions(phases, "ComputeAdvantage")) <= 1
        /\ \A j \in Positions(phases, "UpdateBaseline") :
              \E i \in Positions(phases, "ComputeAdvantage") : i < j

C3_Witness ==
    /\ config.baseline
    /\ pc = "report"
    /\ itersStarted = 2
    /\ baselineSteps = 2
    /\ usedAdvantages.baseline_version = 1

\* C5: an Exception raised at any point of an iteration is caught once by
\* run: nothing more of train runs (no further iteration, no retry of the
\* failed one), the error is logged once, "Training completed" is logged,
\* and run returns instead of raising.
C5_ExceptionCaughtOnce ==
    raised.kind = "Exception" =>
        /\ pc \in {"except", "finally", "wandb_exit", "run_returned"}
        /\ itersStarted = raised.itersStarted
        /\ t = raised.t
        /\ phases = raised.phases
        /\ policySteps = raised.policySteps
        /\ baselineSteps = raised.baselineSteps
        /\ reports = raised.reports
        /\ errorLogged = (IF pc = "except" THEN 0 ELSE 1)
        /\ completedLogged = (IF pc \in {"except", "finally"} THEN 0 ELSE 1)

C5_Witness ==
    /\ pc = "run_returned"
    /\ raised.kind = "Exception"
    /\ raised.pc = "update_policy"
    /\ raised.t = 1
    /\ config.num_batches >= 2
    /\ policySteps = 1
    /\ errorLogged = 1
    /\ completedLogged = 1

\* C6 as stated: when an exception has ended training and run has returned,
\* the policy and (with baseline enabled) the baseline have received the same
\* number of updates, the number of completed iterations.
C6_UpdatesAtomicPerIteration ==
    (pc = "run_returned" /\ raised.kind = "Exception") =>
        /\ policySteps = itersDone
        /\ config.baseline => baselineSteps = policySteps

\* C7: PPO without baseline is rejected by validate_namespace before the
\* environment is constructed or used and before a trainer is created; every
\* other combination passes.
C7_PpoNeedsBaseline ==
    LET bad == config.algorithm = "ppo" /\ ~config.baseline IN
    /\ bad => /\ pc \in {"validate", "aborted"}
              /\ ~envConstructed
              /\ ~envInteracted
              /\ ~trainerCreated
    /\ (bad /\ pc # "validate") => (validated = "rejected" /\ pc = "aborted")
    /\ (~bad /\ pc # "validate") => (validated = "ok" /\ pc # "aborted")

C7_Witness ==
    /\ pc = "aborted"
    /\ validated = "rejected"
    /\ config.algorithm = "ppo"
    /\ ~config.baseline
    /\ ~envConstructed

\* The phases of one loop body, in the order of section 4.7.
ExpectedPhases(cfg) ==
    <<"SampleBatch", "ComputeReturns", "ComputeAdvantage">>
        \o (IF cfg.normalize_advantage THEN <<"NormalizeAdvantage">> ELSE <<>>)
        \o (IF cfg.baseline THEN <<"UpdateBaseline">> ELSE <<>>)
        \o <<"UpdatePolicy", "Report">>

\* C8: without an exception, train runs exactly num_batches iterations and
\* ends; each runs SampleBatch, ComputeReturns, ComputeAdvantage
\* (normalisation last), UpdateBaseline (only with baseline), UpdatePolicy in
\* that order, with one gradient step on the policy, at most one on the
\* baseline and one reward report.
C8_IterationsAndPhaseOrder ==
    raised.kind = "none" =>
        /\ IsPrefix(phases, ExpectedPhases(config))
        /\ t <= config.num_batches
        /\ itersStarted <= config.num_batches
        /\ pc \in {"train_loop", "finally", "wandb_exit", "run_returned"} =>
              /\ t > 0 => phases = ExpectedPhases(config)
              /\ itersStarted = t
              /\ itersDone = t
              /\ policySteps = t
              /\ reports = t
              /\ baselineSteps = (IF config.baseline THEN t ELSE 0)
        /\ pc \in {"finally", "wandb_exit", "run_returned"} =>
              t = config.num_batches

C8_Witness ==
    /\ pc = "run_returned"
    /\ raised.kind = "none"
    /\ config.num_batches >= 2
    /\ config.baseline
    /\ config.normalize_advantage
    /\ policySteps = config.num_batches
    /\ baselineSteps = config.num_batches
    /\ reports = config.num_batches
    /\ Len(phases) = 7

\* C10 as stated: once the tracking session is acquired, its finish has run
\* whenever run is left, however it is left.
C10_SessionFinishedOnEveryExit ==
    (Returned /\ config.run_name) => wandb = "finished"

====
